---- MODULE Spec2Model ----
(***************************************************************************)
(* Best Fit Coach chat client: the voice conversation loop of              *)
(* components/voice-chat.tsx (ChatComponent), the recorder hook            *)
(* hooks/use-voice-recorder.ts and the identity rules of                   *)
(* lib/wordpress-client.ts (WordPressVoiceClient).                         *)
(*                                                                         *)
(* The browser is single-threaded: every action below is one run of a      *)
(* handler, an event callback or the continuation of an await, executed    *)
(* to its next suspension point.  Suspended continuations live in the bag  *)
(* `tasks`; values a continuation closed over (autoSpeak, tempId, the      *)
(* userId local of createSession) are fields of its record, while refs     *)
(* (voiceModeRef, audioRef, streamRef ...) are read live.                  *)
(***************************************************************************)
EXTENDS Integers, Sequences, FiniteSets, Bags, TLC

NULL == "null"

\* ---------------------------------------------------------------- bounds
MaxStreams == 2      \* microphone streams live or being requested at one time
MaxAudio   == 2      \* audio elements playing at one time
MaxMsgs    == 2      \* a new exchange starts only below this many messages
MaxTasks   == 2      \* exchanges and listening loops under way at one time
MaxChunks  == 1      \* chunks collected in chunksRef

\* ------------------------------------------------------- value domains
AuthId    == "wp_7"                         \* user_id of a stored bfc_auth
ServerIds == {"vc_1", "vc_2"}               \* identities the backend mints
Texts     == {<<"hi">>, <<"Processing">>}   \* what the user may type
Blank     == " "                            \* a white-space character
PaddedTexts == {<<"hi">>, <<Blank, "hi", Blank>>}
InputTexts == {<<>>, <<Blank>>, <<"hi">>}       \* what the input may hold
Replies   == {<<"ok">>}                     \* ai_response of the backend
Transcripts == {<<"hello">>}                \* user_message of the backend

Processing  == "Processing"                 \* the marker of line 1047
Placeholder == <<"mic", "Processing", "...">>
VoiceMessageFallback == <<"(Voice message)">>
WelcomeText == <<"welcome", "back">>
StarterMessage == <<"start", "challenge">>

VARIABLES
  \* lib/wordpress-client.ts
  variant,          \* which of the two class revisions of the file is loaded
  revision,         \* which revision of the chat component is mounted
  authUserId,       \* localStorage bfc_auth .user_id
  memUserId,        \* the private field legacyUserId / userId
  storedUserId,     \* localStorage vc_user_id
  \* hooks/use-voice-recorder.ts
  recorderState,    \* {isRecording, isProcessing, error, audioBlob}
  chunksRef,        \* number of chunks pushed
  mics,             \* the MediaStream / MediaRecorder pairs getUserMedia gave;
                    \* streamRef and mediaRecorderRef are the flags sref, rref
  \* components/voice-chat.tsx
  messages, isLoading, isSpeaking, autoSpeak, sessionReady, error,
  voiceMode, voiceModeRef, isListening, betterSelfPanelOpen,
  inputText,        \* the text in the form's input
  audios,           \* the audio elements playAudio created; audioRef is
                    \* the flag ref
  now,              \* Date.now(), as a name of the current millisecond
  tasks,            \* suspended continuations and pending timers
  returned          \* what the client's method that settled last gave its
                    \* caller: op, the userId it sent, the id of the response

loaded  == <<variant, revision>>
idVars  == <<loaded, authUserId, memUserId, storedUserId, returned>>
recVars == <<recorderState, chunksRef, mics>>
uiVars  == <<messages, isLoading, isSpeaking, autoSpeak, sessionReady, error,
             voiceMode, voiceModeRef, isListening, audios, now,
             betterSelfPanelOpen, inputText>>
vars    == <<idVars, recVars, uiVars, tasks>>

One(t) == SetToBag({t})
Tasks  == BagToSet(tasks)
Repl(B, old, new) == (B (-) One(old)) (+) One(new)
Count(B, P(_)) == BagCardinality([x \in {y \in DOMAIN B : P(y)} |-> B[x]])

\* =====================================================================
\* lib/wordpress-client.ts : identity
\* =====================================================================

getAuthenticatedUserId == authUserId

isAuthenticated == variant = "token" /\ authUserId # NULL

\* getUserId(), first revision: authenticated id, then memory, then storage
getUserIdTokenMutant ==
  IF memUserId # NULL THEN memUserId ELSE storedUserId
getUserIdToken ==
  IF getAuthenticatedUserId # NULL THEN getAuthenticatedUserId
  ELSE IF memUserId # NULL THEN memUserId
  ELSE storedUserId

\* getUserId(), cleaned revision: memory, then storage
getUserIdCleaned ==
  IF memUserId # NULL THEN memUserId ELSE storedUserId

getUserId == IF variant = "token" THEN getUserIdToken ELSE getUserIdCleaned

\* the private field after a call of getUserId(): a value found in storage
\* is cached in memory
getUserIdCache ==
  IF variant = "token" /\ getAuthenticatedUserId # NULL THEN memUserId
  ELSE IF memUserId # NULL THEN memUserId
  ELSE storedUserId

\* setUserId(id): memory and storage
setUserIdMutant(id) ==
  /\ memUserId' = id
  /\ UNCHANGED storedUserId
setUserId(id) ==
  /\ memUserId' = id
  /\ storedUserId' = id

\* createSession: does the response's session.user_id get stored?
\* userId is the local captured before the request.
createSessionStoresMutant(userId, suid) == suid # NULL
createSessionStores(userId, suid) ==
  IF variant = "token"
  THEN userId = NULL /\ suid # NULL /\ ~isAuthenticated
  ELSE userId = NULL /\ suid # NULL

\* sendTextMessage: does the response's user_id get stored?
sendTextStores(uid) ==
  IF variant = "token"
  THEN uid # NULL /\ ~isAuthenticated
  ELSE FALSE

\* the identity a guest is attributed to
guestId == IF memUserId # NULL THEN memUserId ELSE storedUserId


\* ---------------------------------------------- the client's operations
\* A request in flight is a task holding what the method closed over.

\* the value a settled request hands to the caller that awaits it
NoReturn == [op |-> "none", sent |-> NULL, got |-> NULL]
Returned(t, id) == [op |-> t.k, sent |-> t.userId, got |-> id]

\* createSession() up to its await
createSession ==
  /\ BagCardinality(tasks) < MaxTasks
  /\ memUserId' = getUserIdCache
  /\ tasks' = tasks (+) One([k |-> "createSession", userId |-> getUserId])
  /\ UNCHANGED <<loaded, returned, authUserId, storedUserId, recVars, uiVars>>

\* createSession() after its await; suid is data.session.user_id
createSessionReturns(suid) ==
  \E t \in Tasks :
    /\ t.k = "createSession"
    /\ tasks' = tasks (-) One(t)
    /\ IF createSessionStores(t.userId, suid)
       THEN setUserId(suid)
       ELSE UNCHANGED <<memUserId, storedUserId>>
    /\ returned' = Returned(t, suid)
    /\ UNCHANGED <<loaded, authUserId, recVars, uiVars>>

\* WordPressVoiceClient.sendTextMessage(message) up to its await
clientSendTextMessage ==
  /\ BagCardinality(tasks) < MaxTasks
  /\ memUserId' = getUserIdCache
  /\ tasks' = tasks (+) One([k |-> "sendTextMessage", userId |-> getUserId])
  /\ UNCHANGED <<loaded, returned, authUserId, storedUserId, recVars, uiVars>>

\* WordPressVoiceClient.sendTextMessage after its await; uid is data.user_id
clientSendTextMessageReturns(uid) ==
  \E t \in Tasks :
    /\ t.k = "sendTextMessage"
    /\ tasks' = tasks (-) One(t)
    /\ IF sendTextStores(uid)
       THEN setUserId(uid)
       ELSE UNCHANGED <<memUserId, storedUserId>>
    /\ returned' = Returned(t, uid)
    /\ UNCHANGED <<loaded, authUserId, recVars, uiVars>>

\* WordPressVoiceClient.sendVoiceMessage(blob) up to its await
clientSendVoiceMessage ==
  /\ BagCardinality(tasks) < MaxTasks
  /\ memUserId' = getUserIdCache
  /\ tasks' = tasks (+) One([k |-> "sendVoiceMessage", userId |-> getUserId])
  /\ UNCHANGED <<loaded, returned, authUserId, storedUserId, recVars, uiVars>>

\* WordPressVoiceClient.sendVoiceMessage returns response.json()
clientSendVoiceMessageReturns ==
  \E t \in Tasks :
    /\ t.k = "sendVoiceMessage"
    /\ tasks' = tasks (-) One(t)
    /\ returned' = Returned(t, NULL)
    /\ UNCHANGED <<loaded, authUserId, memUserId, storedUserId, recVars, uiVars>>

\* response.ok is false, or fetch rejects: the method throws
clientRequestFails ==
  \E t \in Tasks :
    /\ t.k \in {"createSession", "sendTextMessage", "sendVoiceMessage"}
    /\ tasks' = tasks (-) One(t)
    /\ returned' = Returned(t, "throws")
    /\ UNCHANGED <<loaded, authUserId, memUserId, storedUserId, recVars, uiVars>>

\* setUserId(id) called from outside the class (public in the first revision)
clientSetUserId(id) ==
  /\ variant = "token"
  /\ setUserId(id)
  /\ UNCHANGED <<loaded, returned, authUserId, recVars, uiVars, tasks>>

\* validateAuthToken succeeds: storeAuth(data)
validateAuthToken ==
  /\ variant = "token"
  /\ authUserId = NULL
  /\ authUserId' = AuthId
  /\ UNCHANGED <<loaded, returned, memUserId, storedUserId, recVars, uiVars, tasks>>

\* logout(): clearAuth() removes bfc_auth and vc_user_id; legacyUserId = null
logout ==
  /\ variant = "token"
  /\ authUserId' = NULL
  /\ storedUserId' = NULL
  /\ memUserId' = NULL
  /\ UNCHANGED <<loaded, returned, recVars, uiVars, tasks>>

\* =====================================================================
\* hooks/use-voice-recorder.ts
\* =====================================================================
\* A microphone is the MediaStream getUserMedia gave together with the
\* MediaRecorder built on it: live (its tracks are not stopped), state of
\* the recorder, onstop (stopRecording installed its handler and the stop
\* event is due), speak (the autoSpeak the awaiting voice cycle closed
\* over), sref / rref (streamRef.current / mediaRecorderRef.current point
\* at it).  A microphone nothing can reach any more is dropped from the bag.

GumTask == [k |-> "gum"]     \* a getUserMedia promise not yet settled

NewMic == [live |-> TRUE, state |-> "recording", onstop |-> FALSE,
           speak |-> FALSE, sref |-> TRUE, rref |-> TRUE]

Unreachable(m) == ~m.live /\ ~m.onstop /\ ~m.sref /\ ~m.rref
Collect(B) == [m \in {x \in DOMAIN B : ~Unreachable(x)} |-> B[m]]

Recorders == {m \in BagToSet(mics) : m.rref}
LiveStreams == Count(mics, LAMBDA m : m.live)

\* startRecording up to its await: clears error and audioBlob and asks for
\* the microphone.  There is no check of isRecording.
startRecordingState == [recorderState EXCEPT !.error = NULL, !.audioBlob = NULL]

\* startRecording after its await: both refs move to the new pair
startRecordingRefs(B) ==
  Collect(BagOfAll(LAMBDA m : [m EXCEPT !.sref = FALSE, !.rref = FALSE], B))
  (+) One(NewMic)

\* true when mediaRecorderRef holds nothing that stop() can act on
recorderIdle == \A m \in Recorders : m.state = "inactive"

\* streamRef.current.getTracks().forEach(stop); streamRef.current = null
releaseStream(B) ==
  BagOfAll(LAMBDA m : IF m.sref THEN [m EXCEPT !.live = FALSE, !.sref = FALSE]
                      ELSE m, B)

\* stopRecording() on an active recorder: the handler is installed and
\* stop() called
stopRecorder(B, speak) ==
  BagOfAll(LAMBDA m : IF m.rref
                      THEN [m EXCEPT !.state = "inactive", !.onstop = TRUE,
                                     !.speak = speak]
                      ELSE m, B)

\* cancelRecording()
cancelRecording ==
  /\ mics' = Collect(BagOfAll(
       LAMBDA m : [m EXCEPT !.state = IF m.rref THEN "inactive" ELSE @,
                            !.live = IF m.sref THEN FALSE ELSE @,
                            !.sref = FALSE, !.rref = FALSE], mics))
  /\ chunksRef' = 0
  /\ recorderState' = [isRecording |-> FALSE, isProcessing |-> FALSE,
                       error |-> NULL, audioBlob |-> NULL]

\* =====================================================================
\* components/voice-chat.tsx
\* =====================================================================

MsgMutant(id, role, content) == [id |-> id, role |-> "user", content |-> content]
Msg(id, role, content) == [id |-> id, role |-> role, content |-> content]

\* String.prototype.trim on a text given as its sequence of tokens
RECURSIVE trimStart(_)
trimStart(text) ==
  IF text # <<>> /\ Head(text) = Blank THEN trimStart(Tail(text)) ELSE text

RECURSIVE trimEnd(_)
trimEnd(text) ==
  IF text # <<>> /\ text[Len(text)] = Blank
  THEN trimEnd(SubSeq(text, 1, Len(text) - 1))
  ELSE text

trim(text) == trimEnd(trimStart(text))

includes(content, marker) == \E i \in DOMAIN content : content[i] = marker

\* prev.filter(msg => !msg.content.includes('Processing'))
withoutProcessing(ms) ==
  SelectSeq(ms, LAMBDA m : ~includes(m.content, Processing))

\* prev.map(msg => msg.id === tempId ? {...msg, content} : msg)
withTranscript(ms, tempId, content) ==
  [i \in DOMAIN ms |->
     IF ms[i].id = tempId THEN [ms[i] EXCEPT !.content = content] ELSE ms[i]]

Timer(d) == [k |-> "timer", d |-> d]

\* the live test of line 1009
startListeningGuardMutant == TRUE
startListeningGuard == voiceModeRef

\* the live test of lines 1044 and 1049
relistenGuardMutant == TRUE
relistenGuard == voiceModeRef

\* setTimeout(() => startListening(), d) when voice mode is still active
relisten(d) == IF relistenGuard THEN One(Timer(d)) ELSE EmptyBag

\* An audio element of playAudio: st, revoked (its object URL), then (a
\* voice cycle awaits the promise), ref (audioRef.current points at it).
\* An element that has ended with its URL revoked and is not referenced is
\* dropped; elements that stopped otherwise stay, one of each kind.
Playing == Count(audios, LAMBDA a : a.st = "playing")
Tidy(B) ==
  [a \in {x \in DOMAIN B : x.st \in {"playing", "paused", "rejected"} \/ x.ref}
     |-> IF a.st = "playing" THEN B[a] ELSE 1]

\* continuations under way: tasks, captures that a tap can submit, stop
\* events that are due, playbacks a voice cycle awaits
Threads ==
  BagCardinality(tasks)
  + Count(mics, LAMBDA m : m.onstop \/ (m.rref /\ m.state = "recording"))
  + Count(audios, LAMBDA a : a.st = "playing" /\ a.then)

\* room for one more microphone request
CanAcquire == LiveStreams + CopiesIn(GumTask, tasks) < MaxStreams

\* room for one more exchange
CanStartExchange == Len(messages) < MaxMsgs /\ Threads < MaxTasks

\* stopAllAudio(): no audio element is in the document, so querySelectorAll
\* finds none; only audioRef.current is paused and reset
stopAllAudio ==
  /\ audios' = Tidy(BagOfAll(
       LAMBDA a : IF a.ref /\ a.st = "playing" THEN [a EXCEPT !.st = "paused"]
                  ELSE a, audios))
  /\ isSpeaking' = FALSE

\* playAudio(base64) with a payload atob accepts: a new element, tracked by
\* audioRef; `then` tells whether a voice cycle awaits the promise
playAudio(then) ==
  /\ Playing < MaxAudio
  /\ isSpeaking' = TRUE
  /\ audios' = Tidy(BagOfAll(LAMBDA a : [a EXCEPT !.ref = FALSE], audios))
               (+) One([st |-> "playing", revoked |-> FALSE, then |-> then,
                        ref |-> TRUE])

\* Date.now() is read only to build message ids, and ids are only compared
\* for equality: a millisecond is a name, and the name of a millisecond no
\* id refers to any more is used again.
Stamps ==
  {messages[i].id[2] : i \in {j \in DOMAIN messages : messages[j].id[1] # "welcome"}}
  \cup {t.tempId[2] : t \in {u \in Tasks : u.k = "voice" /\ u.pc = "request"}}

\* the millisecond after the current one
nextMs ==
  IF now \in Stamps
  THEN CHOOSE n \in 0..Cardinality(Stamps) :
         n \notin Stamps /\ \A m \in 0..(n - 1) : m \in Stamps
  ELSE now

\* ------------------------------------------------------------- actions

\* the main button when it is bound to toggleVoiceMode (line 1248)
toggleVoiceMode ==
  /\ ~(isLoading /\ ~voiceMode)
  /\ ~(voiceMode /\ recorderState.isRecording)
  /\ IF voiceMode
     THEN /\ voiceMode' = FALSE
          /\ voiceModeRef' = FALSE
          /\ isListening' = FALSE
          /\ IF recorderState.isRecording
             THEN cancelRecording
             ELSE UNCHANGED recVars
          /\ stopAllAudio
          /\ UNCHANGED tasks
     ELSE /\ CanAcquire
          /\ Threads < MaxTasks
          /\ voiceMode' = TRUE
          /\ voiceModeRef' = TRUE
          \* startListening(): the ref was just set
          /\ isListening' = TRUE
          /\ recorderState' = startRecordingState
          /\ tasks' = tasks (+) One(GumTask)
          /\ UNCHANGED <<chunksRef, mics, isSpeaking, audios>>
  /\ UNCHANGED <<idVars, messages, isLoading, autoSpeak, sessionReady, error, now, betterSelfPanelOpen, inputText>>

\* a timer set by processVoiceAndContinue fires: startListening()
startListening ==
  \E t \in Tasks :
    /\ t.k = "timer"
    /\ IF startListeningGuard
       THEN /\ CanAcquire
            /\ isListening' = TRUE
            /\ recorderState' = startRecordingState
            /\ tasks' = (tasks (-) One(t)) (+) One(GumTask)
       ELSE /\ tasks' = tasks (-) One(t)
            /\ UNCHANGED <<isListening, recorderState>>
    /\ UNCHANGED <<idVars, chunksRef, mics, messages, isLoading, isSpeaking,
                   autoSpeak, sessionReady, error, voiceMode, voiceModeRef,
                   audios, now, betterSelfPanelOpen, inputText>>

\* getUserMedia resolves: the rest of startRecording
getUserMediaResolves ==
  /\ CopiesIn(GumTask, tasks) > 0
  /\ tasks' = tasks (-) One(GumTask)
  /\ mics' = startRecordingRefs(mics)
  /\ chunksRef' = 0
  /\ recorderState' = [recorderState EXCEPT !.isRecording = TRUE]
  /\ UNCHANGED <<idVars, uiVars>>

\* getUserMedia rejects: catch of startRecording, then catch of startListening
getUserMediaRejects ==
  /\ CopiesIn(GumTask, tasks) > 0
  /\ tasks' = tasks (-) One(GumTask)
  /\ recorderState' = [recorderState EXCEPT !.error = "Permission denied"]
  /\ error' = "Microphone access denied"
  /\ voiceMode' = FALSE
  /\ voiceModeRef' = FALSE      \* the effect of line 986
  /\ isListening' = FALSE
  /\ UNCHANGED <<idVars, chunksRef, mics, messages, isLoading, isSpeaking,
                 autoSpeak, sessionReady, audios, now, betterSelfPanelOpen, inputText>>

\* ondataavailable of a recorder that is recording a live stream
ondataavailable ==
  /\ \E m \in BagToSet(mics) : m.state = "recording" /\ m.live
  /\ chunksRef < MaxChunks
  /\ chunksRef' = chunksRef + 1
  /\ UNCHANGED <<idVars, recorderState, mics, uiVars, tasks>>

\* the catch block of processVoiceAndContinue; base is the bag without the
\* cycle that failed
voiceCatch(message, base) ==
  /\ error' = message
  /\ messages' = withoutProcessing(messages)
  /\ isLoading' = FALSE
  /\ tasks' = base (+) relisten(1000)

\* the main button when it is bound to handleVoiceTap: processVoiceAndContinue
\* up to the await of stopRecording, and through the catch when stopRecording
\* resolves null at once
processVoiceAndContinue ==
  /\ voiceMode
  /\ recorderState.isRecording
  /\ isListening' = FALSE
  /\ IF recorderIdle
     THEN /\ relistenGuard => Threads < MaxTasks
          /\ recorderState' = [recorderState EXCEPT !.isRecording = FALSE]
          /\ voiceCatch("No audio recorded", tasks)
          /\ UNCHANGED mics
     ELSE /\ Len(messages) < MaxMsgs
          /\ recorderState' = [recorderState EXCEPT !.isProcessing = TRUE]
          /\ mics' = stopRecorder(mics, autoSpeak)
          /\ isLoading' = TRUE
          /\ error' = NULL
          /\ UNCHANGED <<messages, tasks>>
  /\ UNCHANGED <<idVars, chunksRef, isSpeaking, autoSpeak, sessionReady,
                 voiceMode, voiceModeRef, audios, now, betterSelfPanelOpen, inputText>>

\* the stop event of a recorder whose onstop was set by stopRecording; the
\* awaiting cycle goes on to the placeholder and sendVoiceMessage
onstop ==
  \E m \in BagToSet(mics) :
    /\ m.onstop
    /\ mics' = Collect(releaseStream(
                 Repl(mics, m, [m EXCEPT !.onstop = FALSE, !.speak = FALSE])))
    /\ chunksRef' = 0
    /\ recorderState' = [recorderState EXCEPT !.isRecording = FALSE,
                                              !.isProcessing = FALSE,
                                              !.audioBlob = "blob"]
    /\ messages' = Append(messages, Msg(<<"user", now>>, "user", Placeholder))
    /\ memUserId' = getUserIdCache
    /\ tasks' = tasks (+)
                One([k |-> "voice", pc |-> "request", tempId |-> <<"user", now>>,
                     user_id |-> getUserId, autoSpeak |-> m.speak])
    /\ UNCHANGED <<loaded, returned, authUserId, storedUserId, isLoading, isSpeaking,
                   autoSpeak, sessionReady, error, voiceMode, voiceModeRef,
                   isListening, audios, now, betterSelfPanelOpen, inputText>>

\* sendVoiceMessage throws ("Voice message failed") or the response has
\* success = false (response.error, or "Failed to process voice"): the catch
\* block of processVoiceAndContinue
voiceResponseFails(message) ==
  \E t \in Tasks :
    /\ t.k = "voice" /\ t.pc = "request"
    /\ voiceCatch(message, tasks (-) One(t))
    /\ UNCHANGED <<idVars, recVars, isSpeaking, autoSpeak, sessionReady,
                   voiceMode, voiceModeRef, isListening, audios, now, betterSelfPanelOpen, inputText>>

\* the backend answers sendVoiceMessage with success: the rest of the try
\* block up to the await of fetchBetterSelf
voiceResponse(user_message, ai_response) ==
  \E t \in Tasks :
    /\ t.k = "voice" /\ t.pc = "request"
    /\ messages' = Append(
         withTranscript(messages, t.tempId,
           IF user_message # <<>> THEN user_message ELSE VoiceMessageFallback),
         Msg(<<"assistant", now>>, "assistant", ai_response))
    /\ isLoading' = FALSE
    /\ tasks' = (tasks (-) One(t)) (+)
                One([k |-> "voice", pc |-> "fetch", autoSpeak |-> t.autoSpeak])
    /\ UNCHANGED <<idVars, recVars, isSpeaking, autoSpeak, sessionReady, error,
                   voiceMode, voiceModeRef, isListening, audios, now, betterSelfPanelOpen, inputText>>

\* playAudio of the mounted revision settles every failure by resolve()
\* (components/voice-chat.tsx); the other revision rejects on a decode
\* failure and on the element's error event, and has no handler for the
\* rejection of play()
playAudioResolvesOnFailure == revision = "chat"

\* what a voice cycle schedules while it awaits playAudio (line 1043):
\* nothing, line 1044 runs when the promise has settled
awaitPlayAudioMutant == relisten(500)
awaitPlayAudio == EmptyBag

\* fetchBetterSelf returned: lines 1043-1044; audio is response.audio
voiceAfterFetch(audio) ==
  \E t \in Tasks :
    /\ t.k = "voice" /\ t.pc = "fetch"
    /\ IF audio # NULL /\ t.autoSpeak /\ voiceModeRef
       THEN IF audio = "malformed"
            THEN \* atob throws: setIsSpeaking(true), then false
                 /\ isSpeaking' = FALSE
                 /\ IF playAudioResolvesOnFailure
                    THEN /\ tasks' = (tasks (-) One(t)) (+) relisten(500)
                         /\ UNCHANGED <<messages, isLoading, error>>
                    ELSE voiceCatch("Voice processing failed", tasks (-) One(t))
                 /\ UNCHANGED audios
            ELSE /\ playAudio(TRUE)
                 /\ tasks' = (tasks (-) One(t)) (+) awaitPlayAudio
                 /\ UNCHANGED <<messages, isLoading, error>>
       ELSE /\ tasks' = (tasks (-) One(t)) (+) relisten(500)
            /\ UNCHANGED <<isSpeaking, audios, messages, isLoading, error>>
    /\ UNCHANGED <<idVars, recVars, autoSpeak, sessionReady,
                   voiceMode, voiceModeRef, isListening, now, betterSelfPanelOpen, inputText>>

\* an element created by playAudio stops playing by itself: onended, onerror
\* or the rejection of play().  Where the promise resolves, an awaiting
\* voice cycle reaches line 1044; where it rejects, the cycle reaches its
\* catch block; where nothing handles the rejection of play(), the promise
\* never settles and isSpeaking stays as it is
audioSettles(ev) ==
  \E a \in BagToSet(audios) :
    /\ a.st = "playing"
    /\ audios' = Tidy(Repl(audios, a,
                   [a EXCEPT !.st = ev, !.then = FALSE,
                             !.revoked = (ev \in {"ended", "error"})]))
    /\ IF ev = "ended" \/ playAudioResolvesOnFailure
       THEN /\ isSpeaking' = FALSE
            /\ tasks' = tasks (+) (IF a.then THEN relisten(500) ELSE EmptyBag)
            /\ UNCHANGED <<messages, isLoading, error>>
       ELSE IF ev = "error"
            THEN /\ isSpeaking' = FALSE
                 /\ IF a.then
                    THEN voiceCatch("Voice processing failed", tasks)
                    ELSE UNCHANGED <<messages, isLoading, error, tasks>>
            ELSE UNCHANGED <<isSpeaking, messages, isLoading, error, tasks>>
    /\ UNCHANGED <<idVars, recVars, autoSpeak, sessionReady,
                   voiceMode, voiceModeRef, isListening, now, betterSelfPanelOpen, inputText>>

\* the test of line 1074: sendTextMessage returns at once
sendTextRejectsMutant(text) == text = <<>> \/ isLoading
sendTextRejects(text) == trim(text) = <<>> \/ isLoading

\* the form or a conversation starter (shown only outside voice mode):
\* sendTextMessage(text) up to its return or the await of the request
sendTextMessage(text) ==
    /\ ~voiceMode
    /\ IF sendTextRejects(text)
       THEN UNCHANGED vars
       ELSE /\ CanStartExchange
            /\ messages' = Append(messages, Msg(<<"user", now>>, "user", trim(text)))
            /\ inputText' = <<>>
            /\ isLoading' = TRUE
            /\ error' = NULL
            /\ memUserId' = getUserIdCache
            /\ tasks' = tasks (+) One([k |-> "text", pc |-> "request",
                                       user_id |-> getUserId, autoSpeak |-> autoSpeak])
            /\ UNCHANGED <<loaded, returned, authUserId, storedUserId, recVars, isSpeaking,
                           autoSpeak, sessionReady, voiceMode, voiceModeRef,
                           isListening, audios, now, betterSelfPanelOpen>>

\* what the catch and finally blocks of sendTextMessage leave of the
\* conversation: they do not call setMessages
textCatchMessagesMutant(ms) == <<>>
textCatchMessages(ms) == ms

\* WordPressVoiceClient.sendTextMessage throws ("Text message failed") or
\* the response has success = false (response.error, or "Failed to get
\* response"): the catch block and the finally block
textResponseFails(message) ==
  \E t \in Tasks :
    /\ t.k = "text" /\ t.pc = "request"
    /\ error' = message
    /\ isLoading' = FALSE
    /\ messages' = textCatchMessages(messages)
    /\ tasks' = tasks (-) One(t)
    /\ UNCHANGED <<idVars, recVars, isSpeaking, autoSpeak,
                   sessionReady, voiceMode, voiceModeRef, isListening,
                   audios, now, betterSelfPanelOpen, inputText>>

\* the backend answers the text request with success:
\* WordPressVoiceClient.sendTextMessage returns, then the component's try
\* block up to fetchBetterSelf
textResponse(ai_response, user_id) ==
  \E t \in Tasks :
    /\ t.k = "text" /\ t.pc = "request"
    /\ IF sendTextStores(user_id)
       THEN setUserId(user_id)
       ELSE UNCHANGED <<memUserId, storedUserId>>
    /\ messages' = Append(messages,
                          Msg(<<"assistant", now>>, "assistant", ai_response))
    /\ tasks' = (tasks (-) One(t)) (+)
                One([k |-> "text", pc |-> "speech",
                     speak |-> (t.autoSpeak /\ ai_response # <<>>)])
    /\ UNCHANGED <<loaded, returned, authUserId, recVars, isLoading, isSpeaking,
                   autoSpeak, sessionReady, error, voiceMode, voiceModeRef,
                   isListening, audios, now, betterSelfPanelOpen, inputText>>

\* fetchBetterSelf and, with auto-speak, generateSpeech returned: the reader
\* is started (or the speech error swallowed) and the finally block runs
textAfterSpeech(speechOk) ==
  \E t \in Tasks :
    /\ t.k = "text" /\ t.pc = "speech"
    /\ t.speak \/ speechOk
    /\ isLoading' = FALSE
    /\ tasks' = (tasks (-) One(t)) (+)
                (IF t.speak /\ speechOk THEN One([k |-> "reader"]) ELSE EmptyBag)
    /\ UNCHANGED <<idVars, recVars, messages, isSpeaking, autoSpeak, sessionReady,
                   error, voiceMode, voiceModeRef, isListening, audios, now, betterSelfPanelOpen, inputText>>

\* reader.onloadend: playAudio(base64), not awaited
onloadend ==
  /\ CopiesIn([k |-> "reader"], tasks) > 0
  /\ playAudio(FALSE)
  /\ tasks' = tasks (-) One([k |-> "reader"])
  /\ UNCHANGED <<idVars, recVars, messages, isLoading, autoSpeak, sessionReady,
                 error, voiceMode, voiceModeRef, isListening, now, betterSelfPanelOpen, inputText>>

\* createSession of initSession throws: the catch of line 979
initSessionFailsMutant ==
  \E t \in Tasks :
    /\ t.k = "session" /\ t.pc = "request"
    /\ tasks' = tasks (-) One(t)
    /\ UNCHANGED <<idVars, recVars, uiVars>>
initSessionFails ==
  \E t \in Tasks :
    /\ t.k = "session" /\ t.pc = "request"
    /\ sessionReady' = TRUE
    /\ tasks' = tasks (-) One(t)
    /\ UNCHANGED <<idVars, recVars, messages, isLoading, isSpeaking,
                   autoSpeak, error, voiceMode, voiceModeRef, isListening,
                   audios, now, betterSelfPanelOpen, inputText>>

\* the backend answers createSession of initSession; suid is
\* session.user_id of the response
initSession(suid, has_memories) ==
  \E t \in Tasks :
    /\ t.k = "session" /\ t.pc = "request"
    /\ sessionReady' = TRUE
    /\ IF createSessionStores(t.userId, suid)
       THEN setUserId(suid)
       ELSE UNCHANGED <<memUserId, storedUserId>>
    /\ tasks' = (tasks (-) One(t)) (+)
                (IF has_memories
                 THEN One([k |-> "session", pc |-> "fetch"])
                 ELSE EmptyBag)
    /\ UNCHANGED <<loaded, returned, authUserId, recVars, messages, isLoading, isSpeaking,
                   autoSpeak, error, voiceMode, voiceModeRef, isListening,
                   audios, now, betterSelfPanelOpen, inputText>>

\* usage and fetchBetterSelf returned and the session has memories: the
\* welcome message replaces the conversation (line 971)
initSessionWelcome ==
  \E t \in Tasks :
    /\ t.k = "session" /\ t.pc = "fetch"
    /\ messages' = <<Msg(<<"welcome", 0>>, "assistant", WelcomeText)>>
    /\ tasks' = tasks (-) One(t)
    /\ UNCHANGED <<idVars, recVars, isLoading, isSpeaking, autoSpeak, sessionReady,
                   error, voiceMode, voiceModeRef, isListening, audios, now, betterSelfPanelOpen, inputText>>

\* the sound toggle of line 1160
setAutoSpeak ==
  /\ autoSpeak' = ~autoSpeak
  /\ UNCHANGED <<idVars, recVars, messages, isLoading, isSpeaking, sessionReady,
                 error, voiceMode, voiceModeRef, isListening, audios, now, tasks, betterSelfPanelOpen, inputText>>

\* the clear button, shown when there are messages
clearChat ==
  /\ Len(messages) > 0
  /\ messages' = <<>>
  /\ error' = NULL
  /\ UNCHANGED <<idVars, recVars, isLoading, isSpeaking, autoSpeak, sessionReady,
                 voiceMode, voiceModeRef, isListening, audios, now, tasks, betterSelfPanelOpen, inputText>>

\* the Dismiss link of the error banner
dismissError ==
  /\ error # NULL
  /\ error' = NULL
  /\ UNCHANGED <<idVars, recVars, messages, isLoading, isSpeaking, autoSpeak,
                 sessionReady, voiceMode, voiceModeRef, isListening, audios,
                 now, tasks, betterSelfPanelOpen, inputText>>

\* the progress badge of line 1149 opens the Better Self panel
openPanel ==
  /\ ~betterSelfPanelOpen
  /\ betterSelfPanelOpen' = TRUE
  /\ UNCHANGED <<idVars, recVars, messages, isLoading, isSpeaking, autoSpeak,
                 sessionReady, error, voiceMode, voiceModeRef, isListening,
                 audios, now, tasks, inputText>>

\* 'Start My Challenge' in the panel of a user who has no challenge:
\* handleStartChallenge appends the starter message and sets the 100 ms
\* timer; nothing in it looks at isLoading
handleStartChallenge ==
  /\ betterSelfPanelOpen
  /\ CanStartExchange
  /\ betterSelfPanelOpen' = FALSE
  /\ inputText' = <<>>
  /\ messages' = Append(messages, Msg(<<"user", now>>, "user", StarterMessage))
  /\ tasks' = tasks (+) One([k |-> "direct", autoSpeak |-> autoSpeak])
  /\ UNCHANGED <<idVars, recVars, isLoading, isSpeaking, autoSpeak,
                 sessionReady, error, voiceMode, voiceModeRef, isListening,
                 audios, now>>

\* the 100 ms timer fires: sendTextMessageDirect(starterMessage) up to the
\* await of the request; it goes on as sendTextMessage does
sendTextMessageDirect ==
  \E t \in Tasks :
    /\ t.k = "direct"
    /\ isLoading' = TRUE
    /\ error' = NULL
    /\ memUserId' = getUserIdCache
    /\ tasks' = (tasks (-) One(t)) (+)
                One([k |-> "text", pc |-> "request", user_id |-> getUserId,
                     autoSpeak |-> t.autoSpeak])
    /\ UNCHANGED <<loaded, returned, authUserId, storedUserId, recVars, messages,
                   isSpeaking, autoSpeak, sessionReady, voiceMode, voiceModeRef,
                   isListening, audios, now, betterSelfPanelOpen, inputText>>

\* onChange of the input, which is disabled while isLoading
setInputText(text) ==
  /\ ~voiceMode
  /\ ~isLoading
  /\ inputText # text
  /\ inputText' = text
  /\ UNCHANGED <<idVars, recVars, messages, isLoading, isSpeaking, autoSpeak,
                 sessionReady, error, voiceMode, voiceModeRef, isListening,
                 audios, now, tasks, betterSelfPanelOpen>>

\* onSubmit of the form
handleSubmit == sendTextMessage(inputText)

\* a millisecond passes; it matters only once some id carries the current one
tick ==
  /\ now \in Stamps
  /\ now' = nextMs
  /\ UNCHANGED <<idVars, recVars, messages, isLoading, isSpeaking, autoSpeak,
                 sessionReady, error, voiceMode, voiceModeRef, isListening,
                 audios, tasks, betterSelfPanelOpen, inputText>>

\* ------------------------------------------------------ specification

\* the component at rest: nothing recorded, played or said
AtRest ==
  /\ recorderState = [isRecording |-> FALSE, isProcessing |-> FALSE,
                      error |-> NULL, audioBlob |-> NULL]
  /\ chunksRef = 0
  /\ mics = EmptyBag
  /\ messages = <<>>
  /\ isLoading = FALSE
  /\ isSpeaking = FALSE
  /\ autoSpeak = TRUE
  /\ error = NULL
  /\ voiceMode = FALSE
  /\ voiceModeRef = FALSE
  /\ isListening = FALSE
  /\ audios = EmptyBag
  /\ now = 0
  /\ returned = NoReturn
  /\ betterSelfPanelOpen = FALSE
  /\ inputText = <<>>

\* a returning guest whose session has been initialised
Settled ==
  /\ variant = "cleaned"
  /\ revision = "chat"
  /\ authUserId = NULL
  /\ storedUserId = "vc_1"
  /\ memUserId = "vc_1"
  /\ sessionReady = TRUE
  /\ tasks = EmptyBag

\* the voice conversation loop
Init == Settled /\ AtRest

Next ==
  \/ toggleVoiceMode
  \/ startListening
  \/ getUserMediaResolves
  \/ getUserMediaRejects
  \/ ondataavailable
  \/ processVoiceAndContinue
  \/ onstop
  \/ \E message \in {"Voice message failed"} : voiceResponseFails(message)
  \/ \E user_message \in Transcripts, ai_response \in Replies :
       voiceResponse(user_message, ai_response)
  \/ \E audio \in {NULL, "mp3", "malformed"} : voiceAfterFetch(audio)
  \/ \E ev \in {"ended", "error", "rejected"} : audioSettles(ev)

Spec == Init /\ [][Next]_vars

\* the voice loop of the component revision whose playAudio rejects
InitVoice ==
  /\ variant = "cleaned"
  /\ revision = "voice"
  /\ authUserId = NULL
  /\ storedUserId = "vc_1"
  /\ memUserId = "vc_1"
  /\ sessionReady = TRUE
  /\ tasks = EmptyBag
  /\ AtRest

SpecVoice == InitVoice /\ [][Next]_vars

\* the client alone, driven through its public operations: a new client
\* object over whatever the browser has stored
InitClient ==
  /\ variant \in {"token", "cleaned"}
  /\ revision = "chat"
  /\ authUserId \in (IF variant = "token" THEN {NULL, AuthId} ELSE {NULL})
  /\ storedUserId \in {NULL} \cup ServerIds
  /\ memUserId = NULL
  /\ sessionReady = FALSE
  /\ tasks = EmptyBag
  /\ AtRest

NextClient ==
  \/ createSession
  \/ \E suid \in ServerIds \cup {NULL} : createSessionReturns(suid)
  \/ clientSendTextMessage
  \/ \E uid \in ServerIds \cup {NULL} : clientSendTextMessageReturns(uid)
  \/ clientSendVoiceMessage
  \/ clientSendVoiceMessageReturns
  \/ clientRequestFails
  \/ \E id \in ServerIds : clientSetUserId(id)
  \/ validateAuthToken
  \/ logout

SpecClient == InitClient /\ [][NextClient]_vars

\* the voice loop together with typed exchanges
NextTalk ==
  \/ Next
  \/ \E text \in Texts : sendTextMessage(text)
  \/ \E message \in {"Text message failed"} : textResponseFails(message)
  \/ \E ai_response \in Replies : textResponse(ai_response, NULL)
  \/ \E speechOk \in BOOLEAN : textAfterSpeech(speechOk)
  \/ onloadend

SpecTalk == Init /\ [][NextTalk]_vars

\* typed exchanges alone; the text may carry white space around it
NextText ==
  \/ \E text \in PaddedTexts : sendTextMessage(text)
  \/ \E message \in {"Text message failed", "Failed to get response"} :
       textResponseFails(message)
  \/ \E ai_response \in Replies : textResponse(ai_response, NULL)
  \/ \E speechOk \in BOOLEAN : textAfterSpeech(speechOk)
  \/ onloadend
  \/ \E ev \in {"ended", "error", "rejected"} : audioSettles(ev)
  \/ setAutoSpeak
  \/ clearChat
  \/ dismissError

SpecText == Init /\ [][NextText]_vars

\* the whole component: the voice loop, text exchanges, the session effect,
\* the header buttons and the clock
InitChat ==
  /\ variant \in {"token", "cleaned"}
  /\ revision = "chat"
  /\ authUserId \in (IF variant = "token" THEN {NULL, AuthId} ELSE {NULL})
  /\ storedUserId \in {NULL} \cup ServerIds
  /\ memUserId = (IF authUserId # NULL THEN NULL ELSE storedUserId)
  /\ sessionReady = FALSE
  /\ tasks = One([k |-> "session", pc |-> "request", userId |-> getUserId])
  /\ AtRest

NextChat ==
  \/ Next
  \/ \E message \in {"Failed to process voice"} : voiceResponseFails(message)
  \/ \E ai_response \in Replies : voiceResponse(<<>>, ai_response)
  \/ \E text \in Texts : sendTextMessage(text)
  \/ \E message \in {"Text message failed", "Failed to get response"} :
       textResponseFails(message)
  \/ \E ai_response \in Replies, user_id \in ServerIds \cup {NULL} :
       textResponse(ai_response, user_id)
  \/ \E speechOk \in BOOLEAN : textAfterSpeech(speechOk)
  \/ onloadend
  \/ initSessionFails
  \/ \E suid \in ServerIds \cup {NULL}, has_memories \in BOOLEAN :
       initSession(suid, has_memories)
  \/ initSessionWelcome
  \/ openPanel
  \/ handleStartChallenge
  \/ sendTextMessageDirect
  \/ setAutoSpeak
  \/ clearChat
  \/ dismissError
  \/ tick

SpecChat == InitChat /\ [][NextChat]_vars

\* the component outside voice mode: the session effect, typed exchanges,
\* the Better Self panel, the clear button and the error banner, from the
\* mount of a returning guest whose initSession awaits createSession
InitForm ==
  /\ variant = "cleaned"
  /\ revision = "chat"
  /\ authUserId = NULL
  /\ storedUserId = "vc_1"
  /\ memUserId = "vc_1"
  /\ sessionReady = FALSE
  /\ tasks = One([k |-> "session", pc |-> "request", userId |-> "vc_1"])
  /\ AtRest

NextForm ==
  \/ initSessionFails
  \/ \E suid \in ServerIds \cup {NULL}, has_memories \in BOOLEAN :
       initSession(suid, has_memories)
  \/ initSessionWelcome
  \/ \E text \in Texts : sendTextMessage(text)
  \/ \E message \in {"Text message failed"} : textResponseFails(message)
  \/ \E ai_response \in Replies : textResponse(ai_response, NULL)
  \/ \E speechOk \in BOOLEAN : textAfterSpeech(speechOk)
  \/ onloadend
  \/ \E ev \in {"ended", "error", "rejected"} : audioSettles(ev)
  \/ openPanel
  \/ handleStartChallenge
  \/ sendTextMessageDirect
  \/ clearChat
  \/ dismissError

SpecForm == InitForm /\ [][NextForm]_vars

\* the request of createSession is settled by the network, one way or the
\* other: fetch resolves or rejects
createSessionSettles ==
  \/ initSessionFails
  \/ \E suid \in ServerIds \cup {NULL}, has_memories \in BOOLEAN :
       initSession(suid, has_memories)

FairForm == SpecForm /\ WF_vars(createSessionSettles)


\* the form with its input: typing, submitting, the Better Self starter and
\* the exchanges they begin
NextInput ==
  \/ \E text \in InputTexts : setInputText(text)
  \/ handleSubmit
  \/ \E message \in {"Text message failed"} : textResponseFails(message)
  \/ \E ai_response \in Replies : textResponse(ai_response, NULL)
  \/ \E speechOk \in BOOLEAN : textAfterSpeech(speechOk)
  \/ onloadend
  \/ audioSettles("ended")
  \/ openPanel
  \/ handleStartChallenge
  \/ sendTextMessageDirect

SpecInput == Init /\ [][NextInput]_vars

\* the voice loop with the sound toggle of the header, for a user who has
\* allowed the microphone and replies that play to their end; what the
\* recorder collects between start and stop is left out
NextSpeak ==
  \/ toggleVoiceMode
  \/ startListening
  \/ getUserMediaResolves
  \/ processVoiceAndContinue
  \/ onstop
  \/ \E message \in {"Voice message failed"} : voiceResponseFails(message)
  \/ \E user_message \in Transcripts, ai_response \in Replies :
       voiceResponse(user_message, ai_response)
  \/ \E audio \in {NULL, "mp3", "malformed"} : voiceAfterFetch(audio)
  \/ audioSettles("ended")
  \/ setAutoSpeak

SpecSpeak == Init /\ [][NextSpeak]_vars

\* typed exchanges and the Better Self starter under a clock that moves:
\* between two runs of a handler a millisecond may or may not have passed
NextClock ==
  \/ \E text \in Texts : sendTextMessage(text)
  \/ \E message \in {"Text message failed"} : textResponseFails(message)
  \/ \E ai_response \in Replies : textResponse(ai_response, NULL)
  \/ \E speechOk \in BOOLEAN : textAfterSpeech(speechOk)
  \/ onloadend
  \/ audioSettles("ended")
  \/ openPanel
  \/ handleStartChallenge
  \/ sendTextMessageDirect
  \/ clearChat
  \/ tick

SpecClock == Init /\ [][NextClock]_vars

\* =====================================================================
\* Properties
\* =====================================================================

Timers == Count(tasks, LAMBDA t : t.k = "timer")
Requests == CopiesIn(GumTask, tasks)     \* calls of startRecording under way

\* a step in which startListening gets past its test and calls startRecording
StartRecordingCalled ==
  \/ toggleVoiceMode /\ ~voiceMode
  \/ startListening /\ startListeningGuard

\* a step in which the promise of stopRecording resolves
StopRecordingResolves ==
  \/ processVoiceAndContinue /\ recorderIdle
  \/ onstop

\* C1: while voice mode stays ended, whatever is still in flight (a backend
\* response, a playback, a re-listen timer) is handled without scheduling a
\* re-listen timer, without calling startRecording and without showing
\* "listening": the flag is read live at lines 1009, 1044 and 1049.
C1_NoRelistenAfterEnd ==
  [][(~voiceModeRef /\ ~voiceModeRef') =>
       /\ Timers' <= Timers
       /\ Requests' <= Requests
       /\ (isListening' => isListening)]_vars

\* C1 witness: a voice cycle whose response has been handled while voice
\* mode was ended; nothing is scheduled and no microphone is live
C1_Witness ==
  /\ ~voiceMode /\ ~voiceModeRef
  /\ \E t \in Tasks : t.k = "voice" /\ t.pc = "fetch"
  /\ Timers = 0 /\ Requests = 0 /\ LiveStreams = 0 /\ ~isListening

\* a response of the backend is handled by the client
ResponseHandled ==
  \/ \E suid \in ServerIds \cup {NULL} : createSessionReturns(suid)
  \/ \E uid \in ServerIds \cup {NULL} : clientSendTextMessageReturns(uid)
  \/ clientSendVoiceMessageReturns

\* C2: an unauthenticated client that has an identity keeps it whatever id
\* a response of the backend carries: handling a response never replaces it.
C2_GuestIdentityNotReplaced ==
  [][(~isAuthenticated /\ getUserId # NULL /\ ResponseHandled)
       => getUserId' = getUserId]_vars

\* C3: createSession called while an identity exists sends that identity
\* with the request, and the identity is the same after the response has
\* been handled, whatever session.user_id the response carries.
C3_CreateSessionKeepsIdentity ==
  [][/\ (createSession /\ getUserId # NULL) =>
          \E t \in Tasks' : /\ t.k = "createSession"
                            /\ t.userId = getUserId
                            /\ tasks' = tasks (+) One(t)
     /\ \A t \in Tasks :
          (/\ t.k = "createSession"
           /\ t.userId # NULL
           /\ tasks' = tasks (-) One(t)
           /\ \E suid \in ServerIds \cup {NULL} : createSessionReturns(suid))
            => getUserId' = getUserId]_vars

\* createSession sent the existing identity, the response carried another
\* one, and the identity is still the one that was sent
C3_Witness ==
  /\ returned.op = "createSession"
  /\ returned.sent # NULL
  /\ returned.got \in ServerIds \ {returned.sent}
  /\ getUserId = returned.sent

\* C4: at most one of listening, speaking and thinking is true
C4_AtMostOneActivity ==
  /\ ~(isListening /\ isSpeaking)
  /\ ~(isListening /\ isLoading)
  /\ ~(isSpeaking /\ isLoading)

\* C5: startRecording called while a capture is active changes nothing: no
\* request for a second stream, recorder refs, chunks and state as before
C5_StartWhileRecordingIsNoOp ==
  [][(recorderState.isRecording /\ StartRecordingCalled) =>
       (Requests' = Requests /\ UNCHANGED recVars)]_vars

\* C6: once the conversation is ended the loop is idle: nothing listens or
\* speaks, no capture is active and no microphone stream is live, for as
\* long as voice mode stays off
C6_EndedLoopIsIdle ==
  ~voiceMode =>
    /\ ~isListening /\ ~isSpeaking
    /\ ~recorderState.isRecording
    /\ LiveStreams = 0

\* C7: 'end conversation' leaves no audio element playing
C7_EndStopsEveryAudio ==
  [][(voiceMode /\ toggleVoiceMode) => Playing' = 0]_vars

\* C8: every element that has stopped playing, on whichever path, has had
\* its object URL revoked
C8_StoppedAudioIsRevoked ==
  \A a \in BagToSet(audios) : a.st # "playing" => a.revoked

\* C9: when stopRecording resolves, every stream is stopped, streamRef is
\* null and isRecording is false
C9_NoStreamAfterStop ==
  [][StopRecordingResolves =>
       /\ LiveStreams' = 0
       /\ \A m \in BagToSet(mics') : ~m.sref
       /\ ~recorderState'.isRecording]_vars

\* the conversation without the placeholder a voice cycle added under tempId
withoutPlaceholder(ms, tempId) ==
  SelectSeq(ms, LAMBDA m : ~(m.id = tempId /\ m.content = Placeholder))

\* C10: a failed voice cycle removes its own placeholder and nothing else;
\* a cycle that fails with no audio recorded has added none
C10_FailureRemovesOnlyOwnPlaceholder ==
  [][/\ (processVoiceAndContinue /\ recorderIdle) => messages' = messages
     /\ \A t \in Tasks :
          (/\ t.k = "voice" /\ t.pc = "request"
           /\ \E message \in {"Voice message failed"} : voiceResponseFails(message)
           /\ tasks' = (tasks (-) One(t)) (+) relisten(1000))
          => messages' = withoutPlaceholder(messages, t.tempId)]_vars

\* every message of the conversation is still there after the step, in its
\* place, with its id and role
MessagesKept ==
  /\ Len(messages') >= Len(messages)
  /\ \A i \in DOMAIN messages :
       /\ messages'[i].id = messages[i].id
       /\ messages'[i].role = messages[i].role

\* C11: a step that is not clearChat keeps every message of the
\* conversation; the one exception is a failed voice cycle, which removes
\* its placeholder
C11_MessagesStayUntilClear ==
  [][\/ clearChat
     \/ MessagesKept
     \/ \E t \in Tasks :
          /\ t.k = "voice" /\ t.pc = "request"
          /\ messages' = withoutPlaceholder(messages, t.tempId)]_vars

\* requests of an exchange the backend has not answered yet
Outstanding ==
  Count(tasks, LAMBDA t : t.k \in {"text", "voice"} /\ t.pc = "request")

\* a step that dispatches a text request to the backend
TextDispatched ==
  \/ \E text \in Texts : sendTextMessage(text)
  \/ sendTextMessageDirect

\* C12: a text request is dispatched only when no text or voice request is
\* outstanding, so at most one text request is outstanding at any time
C12_NoConcurrentTextSend ==
  [][TextDispatched => Outstanding = 0]_vars

\* playbacks a voice cycle is waiting for
AwaitedPlayback == Count(audios, LAMBDA a : a.st = "playing" /\ a.then)

\* a step after which the reply of a voice cycle is not being played any
\* more: its playback ended or failed, or was skipped or failed at once
PlaybackOver ==
  \/ AwaitedPlayback' < AwaitedPlayback
  \/ /\ \E audio \in {NULL, "mp3", "malformed"} : voiceAfterFetch(audio)
     /\ AwaitedPlayback' = AwaitedPlayback

\* C13: when the reply of a successful voice cycle is over (played, failed
\* or skipped) and voice mode is still active, the 500 ms re-listen timer is
\* set and the error banner is not touched
C13_PlaybackOverResumesListening ==
  [][(PlaybackOver /\ voiceModeRef') =>
       /\ CopiesIn(Timer(500), tasks') = CopiesIn(Timer(500), tasks) + 1
       /\ error' = error]_vars

\* a step in which a voice cycle fails: stopRecording gave no audio, or
\* sendVoiceMessage threw or answered success = false
VoiceCycleFails ==
  \/ processVoiceAndContinue /\ recorderIdle
  \/ \E message \in {"Voice message failed", "Failed to process voice"} :
       voiceResponseFails(message)

\* C14: a failed voice cycle sets the error banner and clears isLoading; it
\* sets the 1000 ms re-listen timer exactly when voice mode is still active,
\* and it does not start listening in the same step
C14_FailureCoolsDownThenRetries ==
  [][VoiceCycleFails =>
       /\ error' # NULL
       /\ ~isLoading'
       /\ CopiesIn(Timer(1000), tasks') =
            CopiesIn(Timer(1000), tasks) + (IF voiceModeRef THEN 1 ELSE 0)
       /\ Timers' = Timers + (IF voiceModeRef THEN 1 ELSE 0)
       /\ Requests' = Requests
       /\ (isListening' => isListening)]_vars

\* a voice request has failed after the conversation was ended: the banner
\* is up and nothing is scheduled
C14_Witness ==
  /\ error = "Voice message failed"
  /\ ~isLoading
  /\ ~voiceModeRef
  /\ Timers = 0 /\ Requests = 0

\* C15: when getUserMedia rejects, the loop is idle afterwards: nothing is
\* recorded, isListening is false, the banner reports the microphone, voice
\* mode is off (state and ref) and no re-listen is set or requested
C15_MicrophoneFailureEndsLoop ==
  [][getUserMediaRejects =>
       /\ ~recorderState'.isRecording
       /\ LiveStreams' = 0
       /\ ~isListening'
       /\ error' = "Microphone access denied"
       /\ ~voiceMode' /\ ~voiceModeRef'
       /\ Timers' <= Timers /\ Requests' < Requests]_vars

\* the promise playAudio returned for element a has been settled
PromiseSettled(a) ==
  \/ a.st \in {"ended", "error"}
  \/ a.st = "rejected" /\ playAudioResolvesOnFailure

\* C16: the promise of every playAudio call is settled once its element is
\* not playing any more, a payload that cannot be decoded settles at once
\* without reaching the caller as an exception, and isSpeaking is false
\* after the step that settles
C16_PlayAudioSettles ==
  [][/\ \A a \in BagToSet(audios') : a.st # "playing" => PromiseSettled(a)
     /\ (\E ev \in {"ended", "error", "rejected"} : audioSettles(ev))
          => ~isSpeaking'
     /\ (/\ voiceAfterFetch("malformed")
         /\ voiceModeRef
         /\ \A t \in Tasks : (t.k = "voice" /\ t.pc = "fetch") => t.autoSpeak)
          => (~isSpeaking' /\ error' = error)]_vars

\* a step in which a text request fails
TextRequestFails ==
  \E message \in {"Text message failed", "Failed to get response"} :
    textResponseFails(message)

\* a step in which an I/O operation of an exchange fails: a text request, a
\* voice request, a capture without audio, a speech-synthesis request
ExchangeIOFails ==
  \/ TextRequestFails
  \/ VoiceCycleFails
  \/ textAfterSpeech(FALSE)

\* C17: every I/O failure of an exchange leaves a banner (error is not
\* null) and leaves isLoading false
C17_FailuresAreSurfaced ==
  [][ExchangeIOFails => (error' # NULL /\ ~isLoading')]_vars

\* C18: a failed text request sets the banner and clears isLoading, and the
\* conversation is exactly what it was before the failure was handled,
\* the message that was sent included
C18_TextFailureKeepsConversation ==
  [][TextRequestFails =>
       /\ error' # NULL
       /\ ~isLoading'
       /\ messages' = messages]_vars

\* a text request has failed and the message that was sent is still shown
C18_Witness ==
  /\ error = "Text message failed"
  /\ ~isLoading
  /\ Len(messages) > 0
  /\ messages[Len(messages)].role = "user"
  /\ Outstanding = 0

\* C19, as claimed: a successful round trip appends a user message whose
\* content is the text as it was typed and then an assistant message with
\* the reply, and nothing else changes in the conversation
C19_RoundTripAppendsTypedText ==
  [][/\ \A text \in PaddedTexts :
          sendTextMessage(text) =>
            messages' = Append(messages, [id |-> <<"user", now>>,
                                          role |-> "user", content |-> text])
     /\ \A ai_response \in Replies :
          textResponse(ai_response, NULL) =>
            messages' = Append(messages, [id |-> <<"assistant", now>>,
                                          role |-> "assistant",
                                          content |-> ai_response])]_vars

\* C19, amended: the user message carries the typed text without the white
\* space around it; send and response each append exactly one message, user
\* then assistant, and leave the earlier messages as they were; the steps
\* after the response do not touch the conversation
C19_RoundTripAppendsTrimmedText ==
  [][/\ \A text \in PaddedTexts :
          sendTextMessage(text) =>
            messages' = Append(messages, [id |-> <<"user", now>>,
                                          role |-> "user",
                                          content |-> trim(text)])
     /\ \A ai_response \in Replies :
          textResponse(ai_response, NULL) =>
            messages' = Append(messages, [id |-> <<"assistant", now>>,
                                          role |-> "assistant",
                                          content |-> ai_response])
     /\ ((\E speechOk \in BOOLEAN : textAfterSpeech(speechOk)) \/ onloadend)
          => messages' = messages]_vars

\* a round trip is complete: the conversation is the user message followed
\* by the reply, and the exchange is through its finally block
C19_Witness ==
  /\ Len(messages) = 2
  /\ messages[1].role = "user" /\ messages[1].content = <<"hi">>
  /\ messages[2].role = "assistant" /\ messages[2].content \in Replies
  /\ ~isLoading /\ error = NULL /\ tasks = EmptyBag

\* C20: when createSession fails, initSession marks the session ready and
\* touches neither the conversation nor the error banner; and whichever way
\* createSession settles, sessionReady becomes true and stays true
C20_SessionReadyWhateverHappens ==
  /\ [][initSessionFails =>
          (sessionReady' /\ messages' = messages /\ error' = error)]_vars
  /\ [][sessionReady => sessionReady']_vars
  /\ <>sessionReady

\* session creation has failed with nothing else done: the session is ready,
\* the conversation is empty and there is no banner
C20_Witness ==
  /\ sessionReady
  /\ messages = <<>>
  /\ error = NULL
  /\ tasks = EmptyBag
  /\ ~isLoading

\* a step in which the client issues a request that carries user_id
RequestIssued ==
  \/ createSession
  \/ clientSendTextMessage
  \/ clientSendVoiceMessage

\* the response of a createSession call that sent no identity is handled
\* and carries session.user_id = suid
MintedIdentityHandled(suid) ==
  /\ suid # NULL
  /\ createSessionReturns(suid)
  /\ \E t \in Tasks : /\ t.k = "createSession"
                      /\ t.userId = NULL
                      /\ tasks' = tasks (-) One(t)

\* the identity is suid in memory, in storage and for getUserId()
IdentityIs(suid) ==
  /\ memUserId = suid
  /\ storedUserId = suid
  /\ getUserId = suid

\* C21, as claimed: createSession called with no identity (getUserId() null,
\* so not authenticated) stores the session.user_id of its response in memory
\* and in storage, getUserId() returns it after the response is handled, and
\* every request issued carries what getUserId() returns
C21_MintedIdentityPersisted ==
  [][/\ \A suid \in ServerIds : MintedIdentityHandled(suid) => IdentityIs(suid)'
     /\ RequestIssued =>
          \E t \in Tasks' : /\ tasks' = tasks (+) One(t)
                            /\ t.userId = getUserId
                            /\ getUserId' = getUserId]_vars

\* C21, amended: the same, when the user is still not authenticated at the
\* moment the response is handled
C21_MintedIdentityPersistedForGuest ==
  [][/\ \A suid \in ServerIds :
          (MintedIdentityHandled(suid) /\ ~isAuthenticated) => IdentityIs(suid)'
     /\ RequestIssued =>
          \E t \in Tasks' : /\ tasks' = tasks (+) One(t)
                            /\ t.userId = getUserId
                            /\ getUserId' = getUserId]_vars

\* createSession sent no identity, the minted one is stored, and a request
\* issued afterwards carries it
C21_Witness ==
  /\ returned.op = "createSession"
  /\ returned.sent = NULL
  /\ returned.got \in ServerIds
  /\ IdentityIs(returned.got)
  /\ \E t \in Tasks : t.k = "sendVoiceMessage" /\ t.userId = returned.got

\* C22: getUserId() returns the authenticated identity whenever one is
\* stored, whatever guest identity memory or storage hold; without one it
\* returns the guest identity that was persisted (vc_user_id), which the
\* private field never contradicts; without either it returns null
C22_GetUserIdPriority ==
  /\ authUserId # NULL => getUserId = authUserId
  /\ (authUserId = NULL /\ storedUserId # NULL) => getUserId = storedUserId
  /\ (authUserId = NULL /\ storedUserId = NULL) => getUserId = NULL

\* an authenticated user whose browser also holds a different guest
\* identity, in storage and in the private field
C22_Witness ==
  /\ authUserId # NULL
  /\ storedUserId \in ServerIds
  /\ memUserId = storedUserId
  /\ getUserId = authUserId

\* C23: once an authenticated identity is stored, a call of setUserId(id)
\* changes neither the private field nor vc_user_id, and getUserId() returns
\* after the call what it returned before
C23_SetUserIdNoOpWhenAuthenticated ==
  [][(authUserId # NULL /\ \E id \in ServerIds : clientSetUserId(id)) =>
       /\ memUserId' = memUserId
       /\ storedUserId' = storedUserId
       /\ getUserId' = getUserId]_vars

\* C24: a call of sendTextMessage with an empty or white-space-only text, or
\* while isLoading is true, appends no message, makes no request and leaves
\* the input text, isLoading and the error banner as they were
C24_RejectedSendChangesNothing ==
  [][\A text \in InputTexts \cup PaddedTexts :
       ((trim(text) = <<>> \/ isLoading) /\ sendTextMessage(text)) =>
         UNCHANGED <<messages, tasks, inputText, isLoading, error>>]_vars

\* the form holds a text while a request is outstanding: submitting it now
\* is rejected
C24_Witness ==
  /\ ~voiceMode
  /\ isLoading
  /\ trim(inputText) # <<>>
  /\ Outstanding = 1

\* a voice cycle is under way: its capture is being finalised (stop() was
\* called and the stop event is due) or its request is with the backend
CycleUnderWay ==
  \/ \E m \in BagToSet(mics) : m.onstop
  \/ \E t \in Tasks : t.k = "voice"

\* C25: a tap to send while a voice cycle is under way leaves the
\* conversation, the error banner and the re-listen timers as they were, and
\* stopRecording on a recorder that is missing or inactive resolves null
\* without touching the microphone
C25_SecondTapHasNoEffect ==
  [][/\ (processVoiceAndContinue /\ CycleUnderWay) =>
          /\ messages' = messages
          /\ error' = error
          /\ Timers' = Timers
     /\ (processVoiceAndContinue /\ recorderIdle) =>
          /\ mics' = mics
          /\ Requests' = Requests]_vars

VoiceRequests == Count(tasks, LAMBDA t : t.k = "voice" /\ t.pc = "request")
VoiceFetches  == Count(tasks, LAMBDA t : t.k = "voice" /\ t.pc = "fetch")
StopsDue      == Count(mics, LAMBDA m : m.onstop)

\* C26: the steps of a voice cycle come in order: sendVoiceMessage is issued
\* only in the step in which stopRecording resolves with the capture,
\* playAudio starts only in a step of a cycle whose response has been
\* handled, and a 500 ms re-listen is set only in a step in which the awaited
\* playback settles or is skipped, never beside a playback that is awaited
C26_CycleStepsInOrder ==
  [][/\ VoiceRequests' > VoiceRequests =>
          (StopsDue' = StopsDue - 1 /\ VoiceRequests' = VoiceRequests + 1)
     /\ AwaitedPlayback' > AwaitedPlayback =>
          (VoiceFetches' = VoiceFetches - 1 /\ VoiceRequests' = VoiceRequests)
     /\ CopiesIn(Timer(500), tasks') > CopiesIn(Timer(500), tasks) =>
          \/ AwaitedPlayback' = AwaitedPlayback - 1
          \/ (VoiceFetches' = VoiceFetches - 1
              /\ AwaitedPlayback' = AwaitedPlayback)]_vars

\* a whole cycle in order: the capture was sent, the reply was shown and
\* played to its end, and only then the re-listen was set
C26_Witness ==
  /\ voiceModeRef
  /\ Len(messages) = 2
  /\ messages[1].content \in Transcripts
  /\ messages[2].role = "assistant"
  /\ \E a \in BagToSet(audios) : a.st = "ended"
  /\ Playing = 0 /\ ~isSpeaking
  /\ tasks = One(Timer(500))
  /\ LiveStreams = 0 /\ StopsDue = 0

\* C27: with voice mode active, the step that handles the reply of a voice
\* cycle starts the playback exactly when the response carries audio and
\* autoSpeak is on at that moment; otherwise nothing is played and the
\* 500 ms re-listen is set in that step
C27_SpeaksIffAutoSpeakNow ==
  [][\A audio \in {NULL, "mp3"} :
       (voiceModeRef /\ voiceAfterFetch(audio)) =>
         IF audio # NULL /\ autoSpeak
         THEN AwaitedPlayback' = AwaitedPlayback + 1 /\ isSpeaking'
         ELSE /\ Playing' = Playing
              /\ isSpeaking' = isSpeaking
              /\ CopiesIn(Timer(500), tasks') = CopiesIn(Timer(500), tasks) + 1]_vars

\* C28: the messages of the conversation have pairwise distinct ids
C28_MessageIdsDistinct ==
  \A i, j \in DOMAIN messages : i # j => messages[i].id # messages[j].id

\* the response handled last was that of a createSession call which sent no
\* identity, and the identity it carried is the one persisted now
FirstMintPersisted ==
  /\ returned.op = "createSession"
  /\ returned.sent = NULL
  /\ returned.got \in ServerIds
  /\ IdentityIs(returned.got)

\* C29: of two createSession calls that both sent no identity, the second
\* response to be handled, carrying another minted identity, does not replace
\* the identity the first one persisted
C29_FirstMintedIdentityWins ==
  [][\A suid \in ServerIds :
       (FirstMintPersisted /\ suid # returned.got /\ MintedIdentityHandled(suid))
         => (getUserId' = getUserId /\ storedUserId' = storedUserId)]_vars

\* C30: at most one microphone stream has been acquired and not released
C30_AtMostOneLiveStream == LiveStreams <= 1

====
